---- MODULE Spec2Model ----
(***************************************************************************)
(* A model of transcribe_whisper.py (src/index.py): the timestamp          *)
(* formatting, the srt/vtt/txt/json writers of save_outputs, the file      *)
(* system they write to, and the batch loop of main.                       *)
(*                                                                         *)
(* Text is a sequence of one-character strings, so that padding, trimming, *)
(* joining and splitting are computed and not assumed.  A float number of  *)
(* seconds is an integer count of 1/Den seconds, Den a power of two: such  *)
(* values are exactly representable as Python floats, and //, % and the    *)
(* .3f formatting are exact on them (round-half-even on the exact value).  *)
(***************************************************************************)
EXTENDS Integers, Sequences, FiniteSets, TLC

\* ------------------------------------------------------------------ bounds

\* Fraction bits of the seconds values explored: t = k / 2^FracBits.
FracBits == 11
\* Longest batch of input paths given to main.
MaxInputs == 2

RECURSIVE Pow2(_)
Pow2(n) == IF n = 0 THEN 1 ELSE 2 * Pow2(n - 1)

Den == Pow2(FracBits)

\* -------------------------------------------------------------------- text

NL == "\n"
SP == " "
NUL == "NUL"

Digits == <<"0", "1", "2", "3", "4", "5", "6", "7", "8", "9">>

\* str(n) of a non-negative integer
RECURSIVE NatToStr(_)
NatToStr(n) ==
    IF n < 10 THEN <<Digits[n + 1]>>
    ELSE NatToStr(n \div 10) \o <<Digits[(n % 10) + 1]>>

\* the zero fill of a format width: zeros on the left up to width w
RECURSIVE ZeroFill(_, _)
ZeroFill(s, w) == IF Len(s) >= w THEN s ELSE ZeroFill(<<"0">> \o s, w)

\* f"{n:02d}"
Fmt02d(n) == ZeroFill(NatToStr(n), 2)

\* round(num / den) to the nearest integer, ties to even: the rounding of
\* the 'f' presentation type on the exact value of the float
RoundHalfEven(num, den) ==
    LET q == num \div den
        r == num % den
    IN  IF 2 * r < den THEN q
        ELSE IF 2 * r > den THEN q + 1
        ELSE IF q % 2 = 0 THEN q ELSE q + 1

\* f"{x:06.3f}" of the float x = xs / Den, x >= 0
Fmt063f(xs) ==
    LET ms == RoundHalfEven(xs * 1000, Den)
    IN  ZeroFill(NatToStr(ms \div 1000) \o <<".">> \o ZeroFill(NatToStr(ms % 1000), 3), 6)

\* s.replace(a, b) for one-character a and b
StrReplace(s, a, b) == [k \in 1..Len(s) |-> IF s[k] = a THEN b ELSE s[k]]

IsSpace(ch) == ch \in {SP, NL, "\t"}

RECURSIVE LStrip(_)
LStrip(s) == IF s # <<>> /\ IsSpace(Head(s)) THEN LStrip(Tail(s)) ELSE s

RECURSIVE RStrip(_)
RStrip(s) ==
    IF s # <<>> /\ IsSpace(s[Len(s)]) THEN RStrip(SubSeq(s, 1, Len(s) - 1)) ELSE s

\* s.strip()
Strip(s) == RStrip(LStrip(s))

\* sep.join(parts)
RECURSIVE Join(_, _)
Join(sep, parts) ==
    IF parts = <<>> THEN <<>>
    ELSE IF Len(parts) = 1 THEN parts[1]
    ELSE parts[1] \o sep \o Join(sep, Tail(parts))

\* s.split(ch): the pieces of s between occurrences of ch
RECURSIVE SplitOn(_, _)
SplitOn(s, ch) ==
    IF \E k \in 1..Len(s) : s[k] = ch
    THEN LET k == CHOOSE j \in 1..Len(s) : s[j] = ch /\ \A q \in 1..(j - 1) : s[q] # ch
         IN  <<SubSeq(s, 1, k - 1)>> \o SplitOn(SubSeq(s, k + 1, Len(s)), ch)
    ELSE <<s>>

\* ------------------------------------------------------------- timestamps

SecsPerHour == 3600
SecsPerMin == 60

\* secs_to_ts(t), t = ts / Den seconds
secs_to_ts_mod24(ts) ==
    LET h == (ts \div (SecsPerHour * Den)) % 24
        m == (ts % (SecsPerHour * Den)) \div (SecsPerMin * Den)
        s == ts % (SecsPerMin * Den)
    IN  StrReplace(Fmt02d(h) \o <<":">> \o Fmt02d(m) \o <<":">> \o Fmt063f(s), ".", ",")

secs_to_ts(ts) ==
    LET h == ts \div (SecsPerHour * Den)
        m == (ts % (SecsPerHour * Den)) \div (SecsPerMin * Den)
        s == ts % (SecsPerMin * Den)
    IN  StrReplace(Fmt02d(h) \o <<":">> \o Fmt02d(m) \o <<":">> \o Fmt063f(s), ".", ",")

\* the inline timestamp of the vtt writer
vtt_ts_no_mod(ts) ==
    Fmt02d(ts \div (SecsPerHour * Den)) \o <<":">>
        \o Fmt02d(ts \div (SecsPerMin * Den)) \o <<":">>
        \o Fmt063f(ts % (SecsPerMin * Den))

vtt_ts(ts) ==
    Fmt02d(ts \div (SecsPerHour * Den)) \o <<":">>
        \o Fmt02d((ts % (SecsPerHour * Den)) \div (SecsPerMin * Den)) \o <<":">>
        \o Fmt063f(ts % (SecsPerMin * Den))

\* ------------------------------------------------------------------- paths

SLASH == "/"
DOT == "."

\* s.rfind(ch), 1-based; 0 when ch does not occur
LastIndexOf(s, ch) ==
    IF \E k \in 1..Len(s) : s[k] = ch
    THEN CHOOSE k \in 1..Len(s) : s[k] = ch /\ \A q \in (k + 1)..Len(s) : s[q] # ch
    ELSE 0

RECURSIVE RStripSlash(_)
RStripSlash(s) ==
    IF s # <<>> /\ s[Len(s)] = SLASH THEN RStripSlash(SubSeq(s, 1, Len(s) - 1)) ELSE s

\* os.path.dirname(p)
DirName(p) ==
    LET head == SubSeq(p, 1, LastIndexOf(p, SLASH))
    IN  IF head # <<>> /\ RStripSlash(head) = <<>> THEN head ELSE RStripSlash(head)

\* os.path.basename(p)
BaseName(p) == SubSeq(p, LastIndexOf(p, SLASH) + 1, Len(p))

\* os.path.splitext(p)[0]: the last dot of the file name starts the
\* extension unless only dots precede it in the name
SplitExtRoot(p) ==
    LET sep == LastIndexOf(p, SLASH)
        dot == LastIndexOf(p, DOT)
    IN  IF dot > sep /\ \E q \in (sep + 1)..(dot - 1) : p[q] # DOT
        THEN SubSeq(p, 1, dot - 1)
        ELSE p

\* os.path.join(a, b)
PathJoin(a, b) ==
    IF b # <<>> /\ b[1] = SLASH THEN b
    ELSE IF a = <<>> \/ a[Len(a)] = SLASH THEN a \o b
    ELSE a \o <<SLASH>> \o b

\* the directories os.makedirs(d) makes sure of: d and its ancestors
DirChain(d) ==
    {SubSeq(d, 1, k) : k \in {j \in 1..Len(d) : j = Len(d) \/ d[j + 1] = SLASH}}
        \ {<<>>}

\* the file text after a write of data at offset pos (a gap reads as NUL)
WriteAt(content, pos, data) ==
    LET n == IF Len(content) > pos + Len(data) THEN Len(content) ELSE pos + Len(data)
    IN  [j \in 1..n |->
            IF j > pos /\ j <= pos + Len(data) THEN data[j - pos]
            ELSE IF j <= Len(content) THEN content[j]
            ELSE NUL]

\* ------------------------------------------------- the transcription result

\* A result is a mapping with "text" and "segments"; a segment is a mapping
\* whose keys are among start, end, text, words (a key may be missing: the
\* code reads them with seg["start"] and tests "words" in seg); a word is a
\* mapping with "word".
HasKey(d, k) == k \in DOMAIN d

Arrow == <<SP, "-", "-", ">", SP>>

WordTexts(seg) == [k \in 1..Len(seg["words"]) |-> seg["words"][k]["word"]]

\* the lines of one srt cue below its time range (lines 34-38)
srt_lines_ignore_flag(seg, with_words) ==
    LET text_line == <<Strip(seg["text"])>>
    IN  IF HasKey(seg, "words")
        THEN LET word_line == Join(<<SP>>, WordTexts(seg))
             IN  IF word_line # <<>> THEN text_line \o <<Strip(word_line)>>
                 ELSE text_line
        ELSE text_line

srt_lines(seg, with_words) ==
    LET text_line == <<Strip(seg["text"])>>
    IN  IF with_words /\ HasKey(seg, "words")
        THEN LET word_line == Join(<<SP>>, WordTexts(seg))
             IN  IF word_line # <<>> THEN text_line \o <<Strip(word_line)>>
                 ELSE text_line
        ELSE text_line

\* what one iteration of the srt loop writes (lines 31-39)
SrtCue(i, seg, with_words) ==
    NatToStr(i) \o <<NL>> \o secs_to_ts(seg["start"]) \o Arrow \o secs_to_ts(seg["end"])
        \o <<NL>> \o Join(<<NL>>, srt_lines(seg, with_words)) \o <<NL, NL>>

\* f.write("WEBVTT\n\n")
VttHeader == <<"W", "E", "B", "V", "T", "T", NL, NL>>

\* what one iteration of the vtt loop writes (lines 44-47)
VttCue(seg) ==
    vtt_ts(seg["start"]) \o Arrow \o vtt_ts(seg["end"]) \o <<NL>>
        \o Strip(seg["text"]) \o <<NL, NL>>

\* what the txt writer writes (line 21)
TxtText(result) == Strip(result["text"]) \o <<NL>>

\* json.dump(result, f, ensure_ascii=False, indent=2): the document is
\* represented by the one value it encodes, no property below reads its
\* characters
JsonText(result) == <<[json |-> result]>>

\* the whole text of the srt file: the cues of segments from..N in order
RECURSIVE SrtFrom(_, _, _)
SrtFrom(result, with_words, from) ==
    IF from > Len(result["segments"]) THEN <<>>
    ELSE SrtCue(from, result["segments"][from], with_words)
             \o SrtFrom(result, with_words, from + 1)

SrtText(result, with_words) == SrtFrom(result, with_words, 1)

RECURSIVE VttFrom(_, _)
VttFrom(result, from) ==
    IF from > Len(result["segments"]) THEN <<>>
    ELSE VttCue(result["segments"][from]) \o VttFrom(result, from + 1)

VttText(result) == VttHeader \o VttFrom(result, 1)

\* ------------------------------------------------------------------- state

VARIABLES
    rPc,        \* rendering of one result: "srt", "vtt", "done"
    rResult,    \* the result rendered
    rWithWords, \* the with_words argument
    rSrt,       \* the srt text rendered
    rVtt,       \* the vtt text rendered
    call,       \* the save_outputs calls: id -> arguments, position, open file
    fs,         \* the files on disk: path -> text
    fs0,        \* the files on disk before the calls started
    dirs,       \* the directories on disk
    mkdirOk,    \* whether a missing directory can be created
    mPc,        \* main: "start", "loop", "transcribe", "saving", "exit", "crashed"
    args,       \* main: the parsed command line
    formats,    \* main: the set of format tags
    idx,        \* main: the position in args.inputs
    existing,   \* the input paths that are files
    broken,     \* the input paths on which the engine raises
    stderr,     \* the paths warned about as skipped
    transcribed \* the paths transcribed, in order

rvars == <<rPc, rResult, rWithWords, rSrt, rVtt>>
cvars == <<call, fs, fs0, dirs, mkdirOk>>

mvars == <<mPc, args, formats, idx, existing, broken, stderr, transcribed>>

vars == <<rvars, cvars, mvars>>

\* no file, as a path -> text function
NoFiles == [p \in {} |-> <<>>]

RenderIdle ==
    /\ rPc = "done"
    /\ rResult = [text |-> <<>>, segments |-> <<>>]
    /\ rWithWords = FALSE
    /\ rSrt = <<>>
    /\ rVtt = <<>>

MainIdle ==
    /\ mPc = "exit"
    /\ args = [inputs |-> <<>>, formats |-> <<>>, output_dir |-> <<>>,
               word_timestamps |-> FALSE]
    /\ formats = {}
    /\ idx = 1
    /\ existing = {}
    /\ broken = {}
    /\ stderr = <<>>
    /\ transcribed = <<>>

CallsIdle ==
    /\ call = <<>>
    /\ fs = NoFiles
    /\ fs0 = NoFiles
    /\ dirs = {}
    /\ mkdirOk = TRUE

\* --------------------------------------------- rendering of one timed cue

\* whole seconds around the minute, hour, day and 100-hour marks
WholeSecs == {0, 5, 65, 3599, 3661, 86399, 359999, 360000}

TsInputs == {w * Den + f : w \in WholeSecs, f \in 0..(Den - 1)}

\* a cue 2.5 s long
CueLen == (5 * Den) \div 2

HiThere == <<[word |-> <<"h", "i">>], [word |-> <<"t", "h", "e", "r", "e">>]>>

\* the segment under test, then a fixed one with end < start and no words
RenderResult(t) ==
    [text |-> <<"h", "i">>,
     segments |-> <<[start |-> t, end |-> t + CueLen,
                     text |-> <<SP, "h", "i", SP>>, words |-> HiThere],
                    [start |-> 65 * Den, end |-> 5 * Den, text |-> <<"b">>]>>]

InitTs ==
    /\ rPc = "srt"
    /\ rResult \in {RenderResult(t) : t \in TsInputs}
    /\ rWithWords \in BOOLEAN
    /\ rSrt = <<>>
    /\ rVtt = <<>>
    /\ CallsIdle
    /\ MainIdle

RenderSrt ==
    /\ rPc = "srt"
    /\ rSrt' = SrtText(rResult, rWithWords)
    /\ rPc' = "vtt"
    /\ UNCHANGED <<rResult, rWithWords, rVtt, cvars, mvars>>

RenderVtt ==
    /\ rPc = "vtt"
    /\ rVtt' = VttText(rResult)
    /\ rPc' = "done"
    /\ UNCHANGED <<rResult, rWithWords, rSrt, cvars, mvars>>

NextTs == RenderSrt \/ RenderVtt

SpecTs == InitTs /\ [][NextTs]_vars

\* ------------------------------------------------------------ save_outputs

TXT == <<"t", "x", "t">>
SRT == <<"s", "r", "t">>
VTT == <<"v", "t", "t">>
JSON == <<"j", "s", "o", "n">>
XML == <<"x", "m", "l">>

KnownTags == {TXT, SRT, VTT, JSON}

\* the order in which save_outputs tests the format tags
FormatOrder == <<TXT, SRT, VTT, JSON>>

\* base_out + ".txt", ...
OutPath(base_out, tag) == base_out \o <<DOT>> \o tag

CurTag(c) == FormatOrder[call[c].k]
CurPath(c) == OutPath(call[c].base_out, CurTag(c))
Segments(c) == call[c].result["segments"]

\* a call about to start
NewCall(base_out, result, fmts, with_words) ==
    [pc |-> "makedirs", base_out |-> base_out, result |-> result,
     formats |-> fmts, with_words |-> with_words,
     k |-> 1, i |-> 0, buf |-> <<>>, pos |-> 0, opened |-> {}]

\* the with block is left by an exception: the file is closed, which writes
\* what is buffered, and the exception leaves save_outputs
Raise(c) ==
    /\ fs' = [fs EXCEPT ![CurPath(c)] = WriteAt(@, call[c].pos, call[c].buf)]
    /\ call' = [call EXCEPT ![c].pc = "raised", ![c].buf = <<>>]

\* os.makedirs(os.path.dirname(base_out), exist_ok=True)
MakeDirsUnordered(c) ==
    /\ call[c].pc = "makedirs"
    /\ LET d == DirName(call[c].base_out)
       IN  IF d # <<>> /\ (d \in dirs \/ mkdirOk)
           THEN /\ dirs' = dirs \cup DirChain(d)
                /\ call' = [call EXCEPT ![c].pc = "test"]
           ELSE /\ dirs' = dirs
                /\ call' = [call EXCEPT ![c].pc = "test"]
    /\ UNCHANGED <<fs, fs0, mkdirOk, rvars, mvars>>

MakeDirs(c) ==
    /\ call[c].pc = "makedirs"
    /\ LET d == DirName(call[c].base_out)
       IN  IF d # <<>> /\ (d \in dirs \/ mkdirOk)
           THEN /\ dirs' = dirs \cup DirChain(d)
                /\ call' = [call EXCEPT ![c].pc = "test"]
           ELSE /\ dirs' = dirs
                /\ call' = [call EXCEPT ![c].pc = "failed"]
    /\ UNCHANGED <<fs, fs0, mkdirOk, rvars, mvars>>

\* if "<tag>" in formats: with open(base_out + ".<tag>", "w") as f
OpenEveryTag(c) ==
    /\ call[c].pc = "test"
    /\ fs' = [p \in DOMAIN fs \cup {CurPath(c)} |->
                 IF p = CurPath(c) THEN <<>> ELSE fs[p]]
    /\ call' = [call EXCEPT ![c].pc = "write", ![c].i = 0, ![c].buf = <<>>,
                            ![c].pos = 0, ![c].opened = @ \cup {CurPath(c)}]
    /\ UNCHANGED <<fs0, dirs, mkdirOk, rvars, mvars>>

OpenOrSkip(c) ==
    /\ call[c].pc = "test"
    /\ IF CurTag(c) \in call[c].formats
       THEN /\ fs' = [p \in DOMAIN fs \cup {CurPath(c)} |->
                         IF p = CurPath(c) THEN <<>> ELSE fs[p]]
            /\ call' = [call EXCEPT ![c].pc = "write", ![c].i = 0, ![c].buf = <<>>,
                                    ![c].pos = 0, ![c].opened = @ \cup {CurPath(c)}]
       ELSE /\ fs' = fs
            /\ call' = IF call[c].k = Len(FormatOrder)
                       THEN [call EXCEPT ![c].pc = "done"]
                       ELSE [call EXCEPT ![c].k = @ + 1]
    /\ UNCHANGED <<fs0, dirs, mkdirOk, rvars, mvars>>

\* f.write(result["text"].strip() + "\n")
WriteTxt(c) ==
    /\ call[c].pc = "write" /\ CurTag(c) = TXT
    /\ call' = [call EXCEPT ![c].buf = @ \o TxtText(call[c].result), ![c].pc = "close"]
    /\ UNCHANGED <<fs, fs0, dirs, mkdirOk, rvars, mvars>>

\* one turn of: for i, seg in enumerate(result["segments"], 1)
WriteSrt(c) ==
    /\ call[c].pc = "write" /\ CurTag(c) = SRT
    /\ LET i == call[c].i + 1
       IN  IF i > Len(Segments(c))
           THEN call' = [call EXCEPT ![c].pc = "close"] /\ fs' = fs
           ELSE IF \E key \in {"start", "end", "text"} : ~HasKey(Segments(c)[i], key)
           THEN Raise(c)
           ELSE /\ call' = [call EXCEPT ![c].i = i,
                       ![c].buf = @ \o SrtCue(i, Segments(c)[i], call[c].with_words)]
                /\ fs' = fs
    /\ UNCHANGED <<fs0, dirs, mkdirOk, rvars, mvars>>

\* f.write("WEBVTT\n\n")
WriteVttHeader(c) ==
    /\ call[c].pc = "write" /\ CurTag(c) = VTT /\ call[c].i = 0
    /\ call' = [call EXCEPT ![c].buf = @ \o VttHeader, ![c].i = 1]
    /\ UNCHANGED <<fs, fs0, dirs, mkdirOk, rvars, mvars>>

\* one turn of: for seg in result["segments"]
WriteVtt(c) ==
    /\ call[c].pc = "write" /\ CurTag(c) = VTT /\ call[c].i > 0
    /\ LET i == call[c].i
       IN  IF i > Len(Segments(c))
           THEN call' = [call EXCEPT ![c].pc = "close"] /\ fs' = fs
           ELSE IF \E key \in {"start", "end", "text"} : ~HasKey(Segments(c)[i], key)
           THEN Raise(c)
           ELSE /\ call' = [call EXCEPT ![c].i = i + 1,
                                        ![c].buf = @ \o VttCue(Segments(c)[i])]
                /\ fs' = fs
    /\ UNCHANGED <<fs0, dirs, mkdirOk, rvars, mvars>>

\* json.dump(result, f, ensure_ascii=False, indent=2)
WriteJson(c) ==
    /\ call[c].pc = "write" /\ CurTag(c) = JSON
    /\ call' = [call EXCEPT ![c].buf = @ \o JsonText(call[c].result), ![c].pc = "close"]
    /\ UNCHANGED <<fs, fs0, dirs, mkdirOk, rvars, mvars>>

\* the buffered writer empties a full buffer into the file at its offset
Flush(c) ==
    /\ call[c].pc \in {"write", "close"}
    /\ call[c].buf # <<>>
    /\ fs' = [fs EXCEPT ![CurPath(c)] = WriteAt(@, call[c].pos, call[c].buf)]
    /\ call' = [call EXCEPT ![c].pos = @ + Len(call[c].buf), ![c].buf = <<>>]
    /\ UNCHANGED <<fs0, dirs, mkdirOk, rvars, mvars>>

\* the end of the with block: the rest of the buffer is written, the file
\* closed, and the next tag is tested
Close(c) ==
    /\ call[c].pc = "close"
    /\ fs' = [fs EXCEPT ![CurPath(c)] = WriteAt(@, call[c].pos, call[c].buf)]
    /\ call' = IF call[c].k = Len(FormatOrder)
               THEN [call EXCEPT ![c].pc = "done", ![c].buf = <<>>]
               ELSE [call EXCEPT ![c].pc = "test", ![c].k = @ + 1, ![c].buf = <<>>]
    /\ UNCHANGED <<fs0, dirs, mkdirOk, rvars, mvars>>

\* ------------------------------------------------- one call of save_outputs

HalfSec == Den \div 2
\* 59.99951171875 s: less than half a millisecond below the minute
AlmostMinute == 60 * Den - 1

SegA == [start |-> 0, end |-> 5 * HalfSec, text |-> <<SP, "h", "i", SP>>,
         words |-> HiThere]
\* end < start, no words
SegB == [start |-> 65 * Den, end |-> AlmostMinute, text |-> <<"a", SP, "b">>]
\* words whose joined text is blank but not empty
SegC == [start |-> 7323 * HalfSec, end |-> 360000 * Den, text |-> <<"x", NL>>,
         words |-> <<[word |-> <<SP>>]>>]
\* an empty list of words
SegD == [start |-> 5 * Den, end |-> 6 * Den, text |-> <<"y">>, words |-> <<>>]
\* words that carry their leading space, as the engine gives them
SegE == [start |-> 6 * Den, end |-> 7 * Den, text |-> <<SP, "o", "k">>,
         words |-> <<[word |-> <<SP, "o">>], [word |-> <<SP, "k">>]>>]
SegNoStart == [end |-> 5 * Den, text |-> <<"z">>]
SegNoEnd == [start |-> 5 * Den, text |-> <<"z">>]
SegNoText == [start |-> 0, end |-> 5 * Den]

TextHi == <<SP, "h", "i", SP, "a", SP, "b", NL>>

Results ==
    {[text |-> <<>>, segments |-> <<>>],
     [text |-> TextHi, segments |-> <<SegA>>],
     [text |-> TextHi, segments |-> <<SegA, SegB>>],
     [text |-> TextHi, segments |-> <<SegC, SegD, SegE>>],
     [text |-> TextHi, segments |-> <<SegA, SegNoStart>>],
     [text |-> TextHi, segments |-> <<SegNoText>>],
     [text |-> TextHi, segments |-> <<SegB, SegNoEnd, SegA>>]}

DirOut == <<"o", "u", "t">>
BaseOutA == <<"o", "u", "t", "/", "a">>
BaseOutB == <<"o", "u", "t", "/", "s", "/", "b">>
BaseBare == <<"a">>
OldText == <<"o", "l", "d", NL, "o", "l", "d", NL, "o", "l", "d", NL>>

\* the disk before the call: empty, or with the directory, or with the
\* directory and an older srt file in it
DiskBefore ==
    {[d |-> {}, f |-> NoFiles],
     [d |-> {DirOut}, f |-> NoFiles],
     [d |-> {DirOut}, f |-> [p \in {OutPath(BaseOutA, SRT)} |-> OldText]]}

Init ==
    /\ RenderIdle
    /\ \E base_out \in {BaseOutA, BaseOutB, BaseBare}, result \in Results,
          fmts \in SUBSET {TXT, SRT, VTT, JSON, XML}, with_words \in BOOLEAN :
          call = [c \in {1} |-> NewCall(base_out, result, fmts, with_words)]
    /\ \E disk \in DiskBefore : dirs = disk.d /\ fs = disk.f /\ fs0 = disk.f
    /\ mkdirOk \in BOOLEAN
    /\ MainIdle

Next ==
    \/ \E c \in DOMAIN call : MakeDirs(c)
    \/ \E c \in DOMAIN call : OpenOrSkip(c)
    \/ \E c \in DOMAIN call : WriteTxt(c)
    \/ \E c \in DOMAIN call : WriteSrt(c)
    \/ \E c \in DOMAIN call : WriteVttHeader(c)
    \/ \E c \in DOMAIN call : WriteVtt(c)
    \/ \E c \in DOMAIN call : WriteJson(c)
    \/ \E c \in DOMAIN call : Flush(c)
    \/ \E c \in DOMAIN call : Close(c)

Spec == Init /\ [][Next]_vars

\* --------------------------------------- two calls of save_outputs at once

BaseOutC == <<"o", "u", "t", "/", "c">>
TextLong == <<"l", "o", "n", "g", "e", "r", SP, "t", "e", "x", "t">>

ResultOne == [text |-> <<"h", "i">>, segments |-> <<SegA>>]
ResultTwo == [text |-> TextLong, segments |-> <<SegD, SegE>>]

InitConc ==
    /\ RenderIdle
    /\ MainIdle
    /\ \E f1 \in {{TXT}, KnownTags}, f2 \in {{TXT}, KnownTags},
          base2 \in {BaseOutA, BaseOutC} :
          call = [c \in {1, 2} |->
                    IF c = 1 THEN NewCall(BaseOutA, ResultOne, f1, TRUE)
                    ELSE NewCall(base2, ResultTwo, f2, FALSE)]
    /\ dirs \in {{}, {DirOut}}
    /\ fs = NoFiles
    /\ fs0 = NoFiles
    /\ mkdirOk = TRUE

SpecConc == InitConc /\ [][Next]_vars

\* ---------------------------------------------------------------------- main

UpperCase == <<"A", "B", "C", "D", "E", "F", "G", "H", "I", "J", "K", "L", "M",
               "N", "O", "P", "Q", "R", "S", "T", "U", "V", "W", "X", "Y", "Z">>
LowerCase == <<"a", "b", "c", "d", "e", "f", "g", "h", "i", "j", "k", "l", "m",
               "n", "o", "p", "q", "r", "s", "t", "u", "v", "w", "x", "y", "z">>

\* s.lower()
Lower(s) ==
    [k \in 1..Len(s) |->
        IF \E u \in 1..Len(UpperCase) : UpperCase[u] = s[k]
        THEN LowerCase[CHOOSE u \in 1..Len(UpperCase) : UpperCase[u] = s[k]]
        ELSE s[k]]

\* {fmt.strip().lower() for fmt in args.formats.split(",") if fmt.strip()}
ParseFormats(str) ==
    LET pieces == SplitOn(str, ",")
    IN  {Lower(Strip(pieces[k])) : k \in {j \in 1..Len(pieces) : Strip(pieces[j]) # <<>>}}

\* os.path.join(args.output_dir, os.path.splitext(os.path.basename(path))[0])
OutBaseKeepExt(output_dir, path) == PathJoin(output_dir, BaseName(path))

OutBase(output_dir, path) == PathJoin(output_dir, SplitExtRoot(BaseName(path)))

\* model.transcribe(path, ...): the engine is a black box; its result is a
\* function of the audio file, here a text that names the file, with words
\* only under word_timestamps
EngineResult(path, word_timestamps) ==
    [text |-> <<SP>> \o path,
     segments |->
        <<IF word_timestamps
          THEN [start |-> 0, end |-> 5 * HalfSec, text |-> <<SP>> \o path,
                words |-> <<[word |-> <<SP>> \o path]>>]
          ELSE [start |-> 0, end |-> 5 * HalfSec, text |-> <<SP>> \o path]>>]

IdleCall == [NewCall(<<>>, [text |-> <<>>, segments |-> <<>>], {}, FALSE)
                EXCEPT !.pc = "idle"]

CurInput == args.inputs[idx]

\* lines 76-83: the format set, the model, the output directory
MainStart ==
    /\ mPc = "start"
    /\ formats' = ParseFormats(args.formats)
    /\ IF args.output_dir # <<>> /\ (args.output_dir \in dirs \/ mkdirOk)
       THEN dirs' = dirs \cup DirChain(args.output_dir) /\ mPc' = "loop"
       ELSE dirs' = dirs /\ mPc' = "crashed"
    /\ UNCHANGED <<args, idx, existing, broken, stderr, transcribed,
                   call, fs, fs0, mkdirOk, rvars>>

\* lines 85-90: the next path; one that is not a file is skipped with a warning
NextInput ==
    /\ mPc = "loop"
    /\ IF idx > Len(args.inputs)
       THEN mPc' = "exit" /\ UNCHANGED <<idx, stderr>>
       ELSE IF CurInput \notin existing
       THEN mPc' = "loop" /\ idx' = idx + 1 /\ stderr' = Append(stderr, CurInput)
       ELSE mPc' = "transcribe" /\ UNCHANGED <<idx, stderr>>
    /\ UNCHANGED <<args, formats, existing, broken, transcribed, cvars, rvars>>

\* lines 91-109: the engine's result, or its exception, which nothing
\* catches; then the call of save_outputs
Transcribe ==
    /\ mPc = "transcribe"
    /\ IF CurInput \in broken
       THEN mPc' = "crashed" /\ UNCHANGED <<call, transcribed>>
       ELSE /\ mPc' = "saving"
            /\ transcribed' = Append(transcribed, CurInput)
            /\ call' = [call EXCEPT ![1] =
                          NewCall(OutBase(args.output_dir, CurInput),
                                  EngineResult(CurInput, args.word_timestamps),
                                  formats, args.word_timestamps)]
    /\ UNCHANGED <<args, formats, idx, existing, broken, stderr,
                   fs, fs0, dirs, mkdirOk, rvars>>

\* lines 109-110: save_outputs returns, or its exception ends main
SaveReturn ==
    /\ mPc = "saving"
    /\ call[1].pc \in {"done", "failed", "raised"}
    /\ IF call[1].pc = "done"
       THEN mPc' = "loop" /\ idx' = idx + 1
       ELSE mPc' = "crashed" /\ idx' = idx
    /\ call' = [call EXCEPT ![1].pc = "idle"]
    /\ UNCHANGED <<args, formats, existing, broken, stderr, transcribed,
                   fs, fs0, dirs, mkdirOk, rvars>>

PathAX == <<"a", "/", "x", ".", "m", "p", "3">>
PathBX == <<"b", "/", "x", ".", "w", "a", "v">>
PathY == <<"y", ".", "t", "a", "r", ".", "m", "p", "3">>
InputPaths == {PathAX, PathBX, PathY}

\* "txt,srt", the default, and " TXT, vtt,,json,xml"
FormatsDefault == <<"t", "x", "t", ",", "s", "r", "t">>
FormatsMixed == <<SP, "T", "X", "T", ",", SP, "v", "t", "t", ",", ",",
                  "j", "s", "o", "n", ",", "x", "m", "l">>

RECURSIVE SeqsUpTo(_, _)
SeqsUpTo(S, n) ==
    IF n = 0 THEN {<<>>}
    ELSE LET shorter == SeqsUpTo(S, n - 1)
         IN  shorter \cup {Append(q, x) : q \in shorter, x \in S}

InitMain ==
    /\ RenderIdle
    /\ mPc = "start"
    /\ \E inputs \in SeqsUpTo(InputPaths, MaxInputs) \ {<<>>},
          fmt \in {FormatsDefault, FormatsMixed}, wt \in BOOLEAN :
          args = [inputs |-> inputs, formats |-> fmt, output_dir |-> DirOut,
                  word_timestamps |-> wt]
    /\ formats = {}
    /\ idx = 1
    /\ existing \in {InputPaths \ m : m \in {{}} \cup {{q} : q \in InputPaths}}
    /\ broken \in {{}} \cup {{q} : q \in InputPaths}
    /\ stderr = <<>>
    /\ transcribed = <<>>
    /\ call = [c \in {1} |-> IdleCall]
    /\ fs = NoFiles
    /\ fs0 = NoFiles
    /\ dirs = {}
    /\ mkdirOk \in BOOLEAN

NextMain ==
    \/ MainStart
    \/ NextInput
    \/ Transcribe
    \/ SaveReturn
    \/ \E c \in DOMAIN call : MakeDirs(c)
    \/ \E c \in DOMAIN call : OpenOrSkip(c)
    \/ \E c \in DOMAIN call : WriteTxt(c)
    \/ \E c \in DOMAIN call : WriteSrt(c)
    \/ \E c \in DOMAIN call : WriteVttHeader(c)
    \/ \E c \in DOMAIN call : WriteVtt(c)
    \/ \E c \in DOMAIN call : WriteJson(c)
    \/ \E c \in DOMAIN call : Flush(c)
    \/ \E c \in DOMAIN call : Close(c)

SpecMain == InitMain /\ [][NextMain]_vars

\* ------------------------------------------ reading a written text back

IsDigit(ch) == \E d \in 1..10 : Digits[d] = ch

IsDigits(s) == s # <<>> /\ \A k \in 1..Len(s) : IsDigit(s[k])

DigitVal(ch) == (CHOOSE d \in 1..10 : Digits[d] = ch) - 1

RECURSIVE StrToNat(_)
StrToNat(s) ==
    IF s = <<>> THEN 0
    ELSE 10 * StrToNat(SubSeq(s, 1, Len(s) - 1)) + DigitVal(s[Len(s)])

CountOf(s, ch) == Cardinality({k \in 1..Len(s) : s[k] = ch})

Abs(x) == IF x < 0 THEN -x ELSE x

\* a written timestamp HH:MM:SS<sep>mmm read back: its hours field, and
\* the values of its hours, minutes and seconds (in milliseconds) fields;
\* ok tells whether it has that shape at all
ReadStamp(ts, sep) ==
    LET f == SplitOn(ts, ":")
        ok == /\ Len(f) = 3
              /\ IsDigits(f[1]) /\ Len(f[1]) >= 2
              /\ IsDigits(f[2]) /\ Len(f[2]) = 2
              /\ Len(f[3]) = 6 /\ f[3][3] = sep
              /\ IsDigits(SubSeq(f[3], 1, 2)) /\ IsDigits(SubSeq(f[3], 4, 6))
    IN  IF ok
        THEN [ok |-> TRUE, hh |-> f[1], h |-> StrToNat(f[1]), m |-> StrToNat(f[2]),
              ms |-> 1000 * StrToNat(SubSeq(f[3], 1, 2)) + StrToNat(SubSeq(f[3], 4, 6))]
        ELSE [ok |-> FALSE, hh |-> <<>>, h |-> 0, m |-> 0, ms |-> 0]

\* the two timestamps of a time-range line "<start> --> <end>"
RangeStamps(line) == LET w == SplitOn(line, SP) IN <<w[1], w[3]>>

RSeg == rResult["segments"][1]
RSrtLines == SplitOn(rSrt, NL)
RVttLines == SplitOn(rVtt, NL)

\* the timestamps written for the first segment, each with the seconds
\* value it renders
RSrtStamps ==
    IF rPc = "srt" THEN {}
    ELSE LET w == RangeStamps(RSrtLines[2])
         IN  {<<w[1], RSeg["start"]>>, <<w[2], RSeg["end"]>>}

RVttStamps ==
    IF rPc # "done" THEN {}
    ELSE LET w == RangeStamps(RVttLines[3])
         IN  {<<w[1], RSeg["start"]>>, <<w[2], RSeg["end"]>>}

\* ----------------------------------------------------------------- claims

T00 == <<"0", "0", ":", "0", "0", ":", "0", "0", ",", "0", "0", "0">>
T05 == <<"0", "0", ":", "0", "0", ":", "0", "5", ",", "0", "0", "0">>
T65 == <<"0", "0", ":", "0", "1", ":", "0", "5", ",", "0", "0", "0">>
T3661h == <<"0", "1", ":", "0", "1", ":", "0", "1", ",", "5", "0", "0">>

SrtStampOk(ts, t) ==
    LET r == ReadStamp(ts, ",")
    IN  /\ r.ok
        /\ r.h = t \div (3600 * Den)
        /\ (Len(r.hh) > 2) = (t >= 360000 * Den)
        /\ (Len(r.hh) > 2 => r.hh[1] # "0")
        /\ r.m = (t % (3600 * Den)) \div (60 * Den)
        /\ 2 * Abs(r.ms * Den - (t % (60 * Den)) * 1000) <= Den
        /\ (t = 0 => ts = T00)
        /\ (t = 5 * Den => ts = T05)
        /\ (t = 65 * Den => ts = T65)
        /\ (t = 3661 * Den + Den \div 2 => ts = T3661h)

\* C3: every srt timestamp is HH:MM:SS,mmm with HH = floor(t/3600) padded to
\* at least two digits and not reduced modulo 24 (three digits from 100
\* hours on), MM = floor((t mod 3600)/60) on two digits, and the seconds
\* field t mod 60 with a two-digit integer part and three decimals after a
\* comma; t = 0, 5, 65, 3661.5 give the four timestamps of the spec.
C3_SrtTimestampFormat == \A p \in RSrtStamps : SrtStampOk(p[1], p[2])

C3_Witness ==
    /\ rPc = "done"
    /\ RSeg["start"] >= 360000 * Den
    /\ LET r == ReadStamp(RangeStamps(RSrtLines[2])[1], ",")
       IN  r.ok /\ Len(r.hh) = 3 /\ r.h = 100

\* C5: the vtt file is the line WEBVTT, a blank line, and then per segment
\* a time-range line, the trimmed text and a blank line (no index line, no
\* word line whatever with_words is); each vtt timestamp is the srt
\* timestamp of the same value with its single comma turned into a period.
C5_VttMatchesSrt ==
    rPc = "done" =>
        LET n == Len(rResult["segments"])
            vlines == RVttLines
        IN  /\ Len(vlines) = 2 + 3 * n + 1
            /\ vlines[1] = <<"W", "E", "B", "V", "T", "T">>
            /\ vlines[2] = <<>>
            /\ vlines[Len(vlines)] = <<>>
            /\ \A k \in 1..n :
                LET seg == rResult["segments"][k]
                    s1 == secs_to_ts(seg["start"])
                    s2 == secs_to_ts(seg["end"])
                IN  /\ CountOf(s1, ",") = 1 /\ CountOf(s2, ",") = 1
                    /\ vlines[3 * k] =
                         StrReplace(s1, ",", ".") \o Arrow \o StrReplace(s2, ",", ".")
                    /\ vlines[3 * k + 1] = Strip(seg["text"])
                    /\ vlines[3 * k + 2] = <<>>
            /\ \A p \in RVttStamps : \E q \in RSrtStamps :
                   q[2] = p[2] /\ p[1] = StrReplace(q[1], ",", ".")

C5_Witness ==
    /\ rPc = "done"
    /\ rWithWords
    /\ HasKey(RSeg, "words")
    /\ Len(RSrtLines) = 10
    /\ RSeg["start"] > 3600 * Den
    /\ ReadStamp(RangeStamps(RVttLines[3])[1], ".").ms % 1000 = 500

\* the difference between the value read back and t is taken on the whole
\* seconds first, which keeps the products small
StampInRange(ts, t, sep) ==
    LET r == ReadStamp(ts, sep)
        whole == r.h * 3600 + r.m * 60 + r.ms \div 1000 - t \div Den
    IN  /\ r.ok
        /\ r.m \in 0..59
        /\ r.ms \in 0..59999
        /\ Abs(whole) <= 1
        /\ Abs(whole * 1000 * Den + (r.ms % 1000) * Den - (t % Den) * 1000) <= Den

\* C9: every timestamp written to the srt and vtt files has minutes in
\* 00..59 and seconds in 00.000..59.999, and read back as h*3600 + m*60 + s
\* it is within one millisecond of t.
C9_SecondsNeverSixty ==
    /\ \A p \in RSrtStamps : StampInRange(p[1], p[2], ",")
    /\ \A p \in RVttStamps : StampInRange(p[1], p[2], ".")


\* the files a call is asked for: one per recognized tag requested
RequestedPaths(c) ==
    {OutPath(call[c].base_out, t) : t \in call[c].formats \cap KnownTags}

\* C1: a call that returns normally has created or overwritten exactly the
\* files base_out.tag of the recognized tags requested: nothing for an
\* unrecognized tag, nothing at all for no tag, and every other file on
\* disk is as it was.
C1_ExactlyRequestedFiles ==
    \A c \in DOMAIN call :
        call[c].pc = "done" =>
            /\ call[c].opened = RequestedPaths(c)
            /\ Cardinality(call[c].opened) = Cardinality(call[c].formats \cap KnownTags)
            /\ DOMAIN fs = DOMAIN fs0 \cup RequestedPaths(c)
            /\ \A p \in DOMAIN fs0 \ RequestedPaths(c) : fs[p] = fs0[p]
            /\ (call[c].formats = {} => fs = fs0)

C1_Witness ==
    \E c \in DOMAIN call :
        /\ call[c].pc = "done"
        /\ call[c].formats = {SRT, XML}
        /\ call[c].opened = {OutPath(call[c].base_out, SRT)}
        /\ OutPath(call[c].base_out, XML) \notin DOMAIN fs

\* C2: a file is opened only once the parent directory of base_out and all
\* its ancestors exist; a call whose directory cannot be created fails with
\* no file opened and the files on disk unchanged.
C2_DirectoryBeforeFiles ==
    \A c \in DOMAIN call :
        /\ (call[c].opened # {} \/ call[c].pc \in {"write", "close", "done", "raised"}) =>
              /\ DirName(call[c].base_out) # <<>>
              /\ DirChain(DirName(call[c].base_out)) \subseteq dirs
        /\ call[c].pc = "failed" => call[c].opened = {} /\ fs = fs0
        /\ (call[c].pc \notin {"makedirs", "failed"}) =>
              (DirName(call[c].base_out) \in dirs)

C2_Witness ==
    \E c \in DOMAIN call :
        /\ call[c].pc = "failed"
        /\ call[c].formats = KnownTags
        /\ ~mkdirOk
        /\ DirName(call[c].base_out) \notin dirs
        /\ DirName(call[c].base_out) # <<>>

\* the srt file of call c is complete: the writer is past its with block
SrtWritten(c) == SRT \in call[c].formats /\ call[c].k >= 3

ArrowWord == <<"-", "-", ">">>

\* the lines from offset on are the cues of segments k.. as the claim lays
\* them out, followed by nothing but the empty piece after the last newline
RECURSIVE CuesAsClaimed(_, _, _, _, _)
CuesAsClaimed(lines, segs, with_words, k, offset) ==
    IF k > Len(segs) THEN offset = Len(lines) /\ lines[offset] = <<>>
    ELSE LET seg == segs[k]
             joined == IF HasKey(seg, "words") THEN Join(<<SP>>, WordTexts(seg)) ELSE <<>>
             hasWordLine == with_words /\ HasKey(seg, "words") /\ joined # <<>>
         IN  /\ Len(lines) >= offset + 4
             /\ IsDigits(lines[offset]) /\ StrToNat(lines[offset]) = k
             /\ Len(SplitOn(lines[offset + 1], SP)) = 3
             /\ SplitOn(lines[offset + 1], SP)[2] = ArrowWord
             /\ lines[offset + 2] = Strip(seg["text"])
             /\ IF hasWordLine
                THEN /\ lines[offset + 3] = Strip(joined)
                     /\ lines[offset + 4] = <<>>
                     /\ CuesAsClaimed(lines, segs, with_words, k + 1, offset + 5)
                ELSE /\ lines[offset + 3] = <<>>
                     /\ CuesAsClaimed(lines, segs, with_words, k + 1, offset + 4)

\* C4: in the srt file a cue has a word line exactly when with_words is
\* set, the segment has words and their space-joined text is not empty; the
\* line is that joined text, trimmed, right after the trimmed segment text;
\* otherwise the cue is its index line, its time range and its text line,
\* then one blank line.
C4_WordLine ==
    \A c \in DOMAIN call :
        SrtWritten(c) =>
            CuesAsClaimed(SplitOn(fs[OutPath(call[c].base_out, SRT)], NL),
                          Segments(c), call[c].with_words, 1, 1)

C4_Witness ==
    \E c \in DOMAIN call :
        /\ SrtWritten(c)
        /\ call[c].with_words
        /\ Len(Segments(c)) = 3
        /\ LET lines == SplitOn(fs[OutPath(call[c].base_out, SRT)], NL)
           IN  /\ Len(lines) = 15
               /\ lines[4] = <<>> /\ lines[5] = <<>>
               /\ lines[13] = <<"o", SP, SP, "k">>

\* C8: a malformed segment (end < start, or start, end or text missing)
\* never makes a renderer raise: save_outputs completes.
C8_MalformedTolerated ==
    \A c \in DOMAIN call : call[c].pc # "raised"

\* the text a call writes to the file of a tag when it runs alone
TextOf(result, with_words, tag) ==
    IF tag = TXT THEN TxtText(result)
    ELSE IF tag = SRT THEN SrtText(result, with_words)
    ELSE IF tag = VTT THEN VttText(result)
    ELSE JsonText(result)

AloneText(c, p) ==
    LET tag == CHOOSE t \in call[c].formats \cap KnownTags :
                   OutPath(call[c].base_out, t) = p
    IN  TextOf(call[c].result, call[c].with_words, tag)

\* C6: once two concurrent calls are both done, a file only one of them
\* targets holds what that call writes alone, and a file both target holds
\* the complete text of one of the two, never a mixture or a truncation.
C6_LastWriterWins ==
    (\A c \in DOMAIN call : call[c].pc = "done") =>
        \A p \in DOMAIN fs :
            \E c \in DOMAIN call :
                p \in RequestedPaths(c) /\ fs[p] = AloneText(c, p)

Range(q) == {q[k] : k \in 1..Len(q)}

\* the files of input path hold its transcription
OutputsHold(path) ==
    \A tag \in formats \cap KnownTags :
        LET p == OutPath(OutBase(args.output_dir, path), tag)
        IN  /\ p \in DOMAIN fs
            /\ fs[p] = TextOf(EngineResult(path, args.word_timestamps),
                              args.word_timestamps, tag)

\* C7: when main has ended, with the output directory made, every input
\* that is a file and that the engine transcribes has been transcribed and
\* has its files, whatever happened to the inputs before it (one missing,
\* or one on which the engine failed).
C7_BatchContinues ==
    (mPc \in {"exit", "crashed"} /\ args.output_dir \in dirs) =>
        \A j \in 1..Len(args.inputs) :
            (args.inputs[j] \in existing /\ args.inputs[j] \notin broken) =>
                /\ args.inputs[j] \in Range(transcribed)
                /\ \A tag \in formats \cap KnownTags :
                       OutPath(OutBase(args.output_dir, args.inputs[j]), tag) \in DOMAIN fs

\* C10: when the batch has completed, the files of every transcribed input
\* hold that input's transcription: none was overwritten by another input.
C10_NoOverwriteInBatch ==
    mPc = "exit" => \A path \in Range(transcribed) : OutputsHold(path)

====
